---- MODULE Spec2Model ----
(***************************************************************************)
(* Model of green-box: src/src/App.tsx (the App component: paste / file    *)
(* ingestion, the re-run-on-change effect, processImageWithOpenCV and      *)
(* handleCopyImage) and src/src/useOcvLoader.ts (the readiness hook).      *)
(*                                                                         *)
(* The browser is single threaded: every action below is one task. A       *)
(* handler that React does not dispatch itself (a FileReader, getAsString, *)
(* interval or engine callback, an effect of the first commit) only queues *)
(* its state updates; the re-render is a later task (Render), the effects  *)
(* of that render a task later still (Effects), and other callbacks can    *)
(* run in between. The first commit and its effects are two tasks as well  *)
(* (Mount, MountEffects). A change of a range input is rendered, and the   *)
(* effects of that render run, before the handler's task ends.             *)
(***************************************************************************)
EXTENDS Integers, Sequences, FiniteSets, TLC

(***************************************************************************)
(* Bounds of the model.                                                    *)
(***************************************************************************)
\* Runs (invocations of processImageWithOpenCV that pass the guard) started in a behaviour.
MaxRuns == 2
\* Clicks on the copy button in a behaviour.
MaxCopies == 2
\* Reader / getAsString callbacks that may be outstanding at once.
MaxPending == 1

(***************************************************************************)
(* Program constants.                                                      *)
(***************************************************************************)
\* useState initial values, App.tsx:6-9 (scaleFactor in hundredths: 1.0 = 100)
DefaultBlurKernelSize == 7
DefaultCannyThreshold1 == 50
DefaultCannyThreshold2 == 100
DefaultScaleFactor == 100
\* the <canvas> element's default size before anything is drawn
CanvasDefaultWidth == 300
CanvasDefaultHeight == 150

(***************************************************************************)
(* Strings. A JavaScript string is a sequence of UTF-16 code units, and    *)
(* the texts the program trims, tests and uses as image URLs are modelled  *)
(* as such: sequences of numbers. CodeUnits writes one from its printable  *)
(* ASCII characters; any other code unit is written as its number. MIME    *)
(* types, which the program only compares with ASCII literals, are strings.*)
(***************************************************************************)
\* The printable ASCII characters, U+0020 to U+005F and U+0061 to U+007E.
AsciiLow == " !\"#$%&'()*+,-./0123456789:;<=>?@ABCDEFGHIJKLMNOPQRSTUVWXYZ[\\]^_"
AsciiHigh == "abcdefghijklmnopqrstuvwxyz{|}~"

CodeUnit(c) ==
    IF \E n \in 32..95 : SubSeq(AsciiLow, n - 31, n - 31) = c
    THEN CHOOSE n \in 32..95 : SubSeq(AsciiLow, n - 31, n - 31) = c
    ELSE CHOOSE n \in 97..126 : SubSeq(AsciiHigh, n - 96, n - 96) = c

CodeUnits(s) == [i \in 1..Len(s) |-> CodeUnit(SubSeq(s, i, i))]

\* pastedImage's initial value, useState<string | null>(null). Every test the
\* program makes of pastedImage is for truthiness, which null and the empty string
\* (a value no setPastedImage call is given) fail alike.
NoImage == <<>>

\* copyStatus values, App.tsx:10,158,164
StatusEmpty == ""
StatusCopied == "Copied!"
StatusFailed == "Failed to copy"

(***************************************************************************)
(* Inputs the environment can supply.                                      *)
(***************************************************************************)
\* Values the range inputs can be moved to (a sample of each slider's range:
\* scale 0.10-1.00 step 0.05 in hundredths, blur 1-21 step 2, thresholds).
ScaleChoices == {10, 100}
BlurChoices == {7, 9}
\* The whole range of the scale input (min 0.1, max 1.0, step 0.05), in hundredths,
\* and of the blur input (min 1, max 21, step 2).
ScaleRange == {10 + 5 * k : k \in 0..18}
BlurRange == {1 + 2 * k : k \in 0..10}
Threshold1Choices == {50, 60}
Threshold2Choices == {100, 120}

\* Image URLs of the model.
DataUrlA == CodeUnits("data:image/png;base64,A")
DataUrlB == CodeUnits("data:image/png;base64,B")
DataUrlC == CodeUnits("data:image/png;base64,C")
DataUrlD == CodeUnits("data:image/png;base64,D")
DataUrlE == CodeUnits("data:image/png;base64,E")
DataUrlF == CodeUnits("data:image/png;base64,F")
HttpsUrlPng == CodeUnits("https://example.com/a.png")

\* What an <img> does with a given src: whether it loads, and its natural size.
\* Anything not listed fails to load.
ImageTable ==
    [u \in {DataUrlA, HttpsUrlPng, DataUrlB, DataUrlC, DataUrlD, DataUrlE, DataUrlF} |->
        CASE u = DataUrlA -> [width |-> 4, height |-> 2]
          [] u = DataUrlB -> [width |-> 1, height |-> 1]
          [] u = DataUrlC -> [width |-> 3, height |-> 7]
          [] u = DataUrlD -> [width |-> 5, height |-> 2]
          [] u = DataUrlE -> [width |-> 12, height |-> 9]
          [] u = DataUrlF -> [width |-> 90, height |-> 45]
          [] OTHER -> [width |-> 1, height |-> 10]]

Decodes(url) == url \in DOMAIN ImageTable

\* Clipboard contents of a paste event: the DataTransferItem list. An image item
\* carries the data URL its FileReader produces; file is FALSE when getAsFile() is null.
ImageItem(t, data, hasFile) == [type |-> t, text |-> data, file |-> hasFile]
TextItem(t, s) == [type |-> t, text |-> s, file |-> FALSE]

\* The texts have white space around them of every kind trim knows: U+00A0,
\* U+2003, space, form feed, line feed, U+FEFF; U+1680, U+3000, U+2028, U+000B.
ClipboardSamples ==
    { <<ImageItem("image/png", DataUrlA, TRUE)>>,
      <<TextItem("text/plain", HttpsUrlPng)>>,
      <<TextItem("text/plain", <<160, 8195, 32>> \o CodeUnits("photo.JPG") \o <<12, 10, 65279>>)>>,
      <<TextItem("text/plain", CodeUnits("notaurl"))>>,
      <<TextItem("text/html", CodeUnits("<b>x</b>")),
        TextItem("text/plain", <<5760, 12288>> \o CodeUnits("data:text/plain,png.x") \o <<8232, 11>>)>>,
      <<TextItem("text/plain", CodeUnits("notaurl")), ImageItem("image/png", DataUrlA, TRUE)>>,
      <<TextItem("text/html", CodeUnits("<img>"))>> }

\* Files the file picker can deliver (e.target.files[0]); none = no file chosen.
FileSamples ==
    { [type |-> "image/png", text |-> DataUrlA],
      [type |-> "text/plain", text |-> CodeUnits("data:text/plain;base64,AA")],
      [type |-> "none", text |-> <<>>] }

(***************************************************************************)
(* Text helpers (String.prototype.trim / startsWith, the extension regex). *)
(***************************************************************************)
\* The code units String.prototype.trim strips, the WhiteSpace and LineTerminator
\* of ECMAScript: U+0009 to U+000D, U+0020, U+00A0, U+1680, U+2000 to U+200A,
\* U+2028, U+2029, U+202F, U+205F, U+3000, U+FEFF.
WhiteSpace ==
    (9..13) \cup {32, 160, 5760} \cup (8192..8202) \cup {8232, 8233, 8239, 8287, 12288, 65279}

IsWhitespace(c) == c \in WhiteSpace

RECURSIVE TrimStart(_)
TrimStart(s) ==
    IF s # <<>> /\ IsWhitespace(s[1]) THEN TrimStart(Tail(s)) ELSE s

RECURSIVE TrimEnd(_)
TrimEnd(s) ==
    IF s # <<>> /\ IsWhitespace(s[Len(s)])
    THEN TrimEnd(SubSeq(s, 1, Len(s) - 1)) ELSE s

\* text.trim()
Trim(s) == TrimEnd(TrimStart(s))

\* s.startsWith(prefix), of code units or of a MIME type
StartsWith(s, prefix) ==
    Len(s) >= Len(prefix) /\ SubSeq(s, 1, Len(prefix)) = prefix

EndsWith(s, suffix) ==
    Len(s) >= Len(suffix) /\ SubSeq(s, Len(s) - Len(suffix) + 1, Len(s)) = suffix

\* The regex's i flag: a code unit matches a letter of the pattern when it is the
\* letter in either case; no code unit outside ASCII matches an ASCII letter.
LowerChar(c) == IF c \in 65..90 THEN c + 32 ELSE c

ToLower(s) == [i \in 1..Len(s) |-> LowerChar(s[i])]

ImageExtensions ==
    {CodeUnits(".jpg"), CodeUnits(".jpeg"), CodeUnits(".png"), CodeUnits(".gif"),
     CodeUnits(".webp"), CodeUnits(".bmp")}

\* (variant for C6: the regex without its i flag)
MatchesImageExtensionCaseSensitive(s) ==
    \E ext \in ImageExtensions : EndsWith(s, ext)

\* trimmedText.match(/\.(jpg|jpeg|png|gif|webp|bmp)$/i)
MatchesImageExtension(s) ==
    \E ext \in ImageExtensions : EndsWith(ToLower(s), ext)

SchemeHttp == CodeUnits("http://")
SchemeHttps == CodeUnits("https://")
SchemeDataImage == CodeUnits("data:image/")

\* (variant for C5: any data: URI passes)
SchemeData == CodeUnits("data:")

LooksLikeImageUrlAnyData(trimmedText) ==
    \/ MatchesImageExtension(trimmedText)
    \/ StartsWith(trimmedText, SchemeHttp)
    \/ StartsWith(trimmedText, SchemeHttps)
    \/ StartsWith(trimmedText, SchemeData)

\* The test of App.tsx:61-64 on the trimmed text.
LooksLikeImageUrl(trimmedText) ==
    \/ MatchesImageExtension(trimmedText)
    \/ StartsWith(trimmedText, SchemeHttp)
    \/ StartsWith(trimmedText, SchemeHttps)
    \/ StartsWith(trimmedText, SchemeDataImage)

(***************************************************************************)
(* State.                                                                  *)
(***************************************************************************)
VARIABLES
    mounted,          \* the component is committed: refs set, handlers attached
    windowCv,         \* window.cv: "undefined", "stub" (object without Mat), "runtime" (Mat present)
    onRuntimeInitialized, \* window.cv.onRuntimeInitialized = checkOpenCV is registered and not yet called
    interval,         \* the setInterval of useOcvLoader is running
    cvReady,          \* useOcvLoader's state, as last rendered
    queued,           \* pastedImage and cvReady as the setters have left them: what
                      \* the next render will show
    pastedImage, blurKernelSize, cannyThreshold1, cannyThreshold2, scaleFactor, copyStatus,
    effectDeps,       \* the dependencies the effects last ran with: the state of the
                      \* render whose effects were the last to run (ran: any has)
    listener,         \* the render whose handlePaste is the registered paste listener
    pending,          \* FileReader.onload / getAsString callbacks not yet called
    runs,             \* every run started, in order: its stage and, while in flight, its closure
    rafQueue,         \* requestAnimationFrame callbacks not yet called (run numbers)
    frameLeft,        \* callbacks of the animation frame in progress still to call
    canvas,           \* the canvas: its size, the image last drawn on it and the
                      \* processing done to its pixels since
    liveBuffers,      \* cv.Mat objects created and not deleted
    copies,           \* every copy attempt, in order, with its stage
    timers,           \* pending setTimeout(() => setCopyStatus(''), 2000): the attempts that set them
    unhandled,        \* promise rejections nothing caught
    last              \* the latest step, if a task of the component: the calls of
                      \* processImageWithOpenCV it made and the runs there were before (history)

vars == <<mounted, windowCv, onRuntimeInitialized, interval, cvReady, queued,
          pastedImage, blurKernelSize, cannyThreshold1, cannyThreshold2, scaleFactor,
          copyStatus, effectDeps, listener, pending, runs, rafQueue, frameLeft, canvas, liveBuffers,
          copies, timers, unhandled, last>>

engineVars == <<windowCv, onRuntimeInitialized, interval>>
paramVars == <<blurKernelSize, cannyThreshold1, cannyThreshold2, scaleFactor>>
copyVars == <<copyStatus, copies, timers, unhandled>>
canvasVars == <<rafQueue, frameLeft, canvas, liveBuffers>>

\* The four parameters as one value.
ParamsOf(sf, blur, t1, t2) ==
    [scaleFactor |-> sf, blurKernelSize |-> blur, cannyThreshold1 |-> t1, cannyThreshold2 |-> t2]

Params == ParamsOf(scaleFactor, blurKernelSize, cannyThreshold1, cannyThreshold2)

DefaultParams ==
    ParamsOf(DefaultScaleFactor, DefaultBlurKernelSize, DefaultCannyThreshold1,
             DefaultCannyThreshold2)

\* A render's processImageWithOpenCV: the cvReady and parameters it closes over.
Closure(ready, p) == [cvReady |-> ready, p |-> p]

\* window.cv && window.cv.Mat
CvHasMat == windowCv = "runtime"

BlankCanvas ==
    [width |-> CanvasDefaultWidth, height |-> CanvasDefaultHeight,
     image |-> NoImage, steps |-> <<>>]

NoTask == [op |-> "none", calls |-> <<>>, runsBefore |-> 0]

\* The dependencies of the effects of a render (App.tsx:79, 86): its state.
Deps(img, ready, p) == [ran |-> TRUE, pastedImage |-> img, cvReady |-> ready, p |-> p]

\* Before the first commit's effects have run.
NoDeps == [ran |-> FALSE, pastedImage |-> NoImage, cvReady |-> FALSE, p |-> DefaultParams]

Init ==
    /\ mounted = FALSE
    /\ windowCv \in {"undefined", "stub", "runtime"}
    /\ onRuntimeInitialized = FALSE
    /\ interval = FALSE
    /\ cvReady = FALSE
    /\ pastedImage = NoImage
    /\ queued = [pastedImage |-> NoImage, cvReady |-> FALSE]
    /\ blurKernelSize = DefaultBlurKernelSize
    /\ cannyThreshold1 = DefaultCannyThreshold1
    /\ cannyThreshold2 = DefaultCannyThreshold2
    /\ scaleFactor = DefaultScaleFactor
    /\ copyStatus = StatusEmpty
    /\ effectDeps = NoDeps
    /\ listener = Closure(FALSE, DefaultParams)
    /\ pending = <<>>
    /\ runs = <<>>
    /\ rafQueue = <<>>
    /\ frameLeft = 0
    /\ canvas = BlankCanvas
    /\ liveBuffers = 0
    /\ copies = <<>>
    /\ timers = <<>>
    /\ unhandled = 0
    /\ last = NoTask

(***************************************************************************)
(* Rendered attributes (the JSX of App.tsx).                               *)
(***************************************************************************)
\* (variant for C9: && in place of ||)
RangeDisabledBoth == pastedImage = NoImage /\ ~cvReady

\* disabled={!pastedImage || !cvReady} on the four range inputs
RangeDisabled == pastedImage = NoImage \/ ~cvReady
\* ... on the Reprocess button
ReprocessDisabled == pastedImage = NoImage \/ ~cvReady
\* ... on the Copy button
CopyDisabled == pastedImage = NoImage \/ ~cvReady
\* the file input has no disabled attribute
FileInputDisabled == FALSE

(***************************************************************************)
(* processImageWithOpenCV, up to img.src = imageUrl.                       *)
(***************************************************************************)
\* (variant for C4: the guard without its cvReady test)
ProcessGuardIgnoresReady(cl) == windowCv # "undefined" /\ mounted

\* The guard of App.tsx:89, negated: cvReady && window.cv && canvasRef.current,
\* with the cvReady of the render the function belongs to.
ProcessGuard(cl) == cl.cvReady /\ windowCv # "undefined" /\ mounted

\* op: the task that made the call (history)
NewRun(imageUrl, p, op) == [url |-> imageUrl, p |-> p, stage |-> "loading", op |-> op]

\* One call: the runs after it. A call that fails the guard only warns.
processImageWithOpenCV(rs, imageUrl, cl, op) ==
    IF ProcessGuard(cl) THEN Append(rs, NewRun(imageUrl, cl.p, op)) ELSE rs

\* The runs whose callbacks are still to come.
InFlight(rs) == {i \in 1..Len(rs) : rs[i].stage \in {"loading", "drawn"}}

Call(via, imageUrl, cl) == [via |-> via, url |-> imageUrl, cl |-> cl]

RECURSIVE ApplyCalls(_, _, _)
ApplyCalls(rs, calls, op) ==
    IF calls = <<>> THEN rs
    ELSE ApplyCalls(processImageWithOpenCV(rs, Head(calls).url, Head(calls).cl, op),
                    Tail(calls), op)

\* (variant for C20: cvReady missing from the effect's dependencies)
ReprocessEffectWithoutReadyDep(img, ready, p, depsChanged) ==
    IF depsChanged /\ img # NoImage /\ ready /\ effectDeps.cvReady
    THEN <<Call("effect", img, Closure(ready, p))>>
    ELSE <<>>

\* (variant for C3: the effect calling the previous render's function)
ReprocessEffectStale(img, ready, p, depsChanged) ==
    IF depsChanged /\ img # NoImage /\ ready
    THEN <<Call("effect", img, Closure(ready, Params))>>
    ELSE <<>>

\* The effect of App.tsx:81-86 for a render with the given state: the call it
\* makes, if any. depsChanged: one of its dependencies differs from those it last
\* ran with.
ReprocessEffect(img, ready, p, depsChanged) ==
    IF depsChanged /\ img # NoImage /\ ready
    THEN <<Call("effect", img, Closure(ready, p))>>
    ELSE <<>>

\* The paste listener after the effects of a render: registered (effect with deps
\* [cvReady], App.tsx:31-79) on the first run and when cvReady has changed, with
\* that render's closure.
PasteListenerEffect(ready, p) ==
    IF ~effectDeps.ran \/ ready # effectDeps.cvReady THEN Closure(ready, p) ELSE listener

LogCalls(calls) ==
    [i \in 1..Len(calls) |->
        [via |-> calls[i].via, url |-> calls[i].url, cl |-> calls[i].cl,
         passed |-> ProcessGuard(calls[i].cl)]]

\* A handler whose updates React renders later: the calls it makes itself, and
\* the state its setters leave for the next render.
Handler(op, direct, img, ready) ==
    /\ runs' = ApplyCalls(runs, direct, op)
    /\ Len(runs') <= MaxRuns
    /\ queued' = [pastedImage |-> img, cvReady |-> ready]
    /\ last' = [op |-> op, calls |-> LogCalls(direct), runsBefore |-> Len(runs)]
    /\ UNCHANGED <<pastedImage, cvReady, paramVars, effectDeps, listener>>

\* A step of useOcvLoader: setCvReady(ready), or nothing if ready is as it was.
\* The hook calls nothing of the component.
LoaderStep(ready) ==
    /\ queued' = [queued EXCEPT !.cvReady = ready]
    /\ last' = NoTask
    /\ UNCHANGED <<pastedImage, cvReady, paramVars, effectDeps, listener, runs>>

\* The effects of App.tsx:31-86 run for a render with the given state: the paste
\* listener's, then the reprocess effect.
RunEffects(op, img, ready, p) ==
    LET calls == ReprocessEffect(img, ready, p, Deps(img, ready, p) # effectDeps)
    IN  /\ listener' = PasteListenerEffect(ready, p)
        /\ runs' = ApplyCalls(runs, calls, op)
        /\ Len(runs') <= MaxRuns
        /\ effectDeps' = Deps(img, ready, p)
        /\ last' = [op |-> op, calls |-> LogCalls(calls), runsBefore |-> Len(runs)]

\* A change handler of a range input: the setter, the render with the new
\* parameters and that render's effects.
Task(op, p) ==
    /\ scaleFactor' = p.scaleFactor
    /\ blurKernelSize' = p.blurKernelSize
    /\ cannyThreshold1' = p.cannyThreshold1
    /\ cannyThreshold2' = p.cannyThreshold2
    /\ RunEffects(op, pastedImage, cvReady, p)
    /\ UNCHANGED <<pastedImage, cvReady>>

\* No callback of an animation frame in progress is outstanding: other tasks can run.
Idle == mounted /\ frameLeft = 0

\* A setter has changed state that is not rendered yet.
RenderPending == queued # [pastedImage |-> pastedImage, cvReady |-> cvReady]

\* A render is committed and its effects have not run yet.
EffectsPending == mounted /\ effectDeps # Deps(pastedImage, cvReady, Params)

\* The re-render React has scheduled for the queued updates, up to its commit: the
\* component shows the new state. React runs the effects of the render before
\* (still pending) before it renders again.
Render ==
    /\ Idle
    /\ RenderPending
    /\ ~EffectsPending
    /\ pastedImage' = queued.pastedImage
    /\ cvReady' = queued.cvReady
    /\ last' = NoTask
    /\ UNCHANGED <<mounted, engineVars, queued, paramVars, effectDeps, listener, pending, runs,
                   canvasVars, copyVars>>

\* The effects of the last render, after its commit: the paste listener
\* re-registered if cvReady changed (App.tsx:77-78), the reprocess effect
\* (App.tsx:81-86). op: "ready" if the render was the one to show cvReady.
Effects ==
    /\ Idle
    /\ effectDeps.ran
    /\ EffectsPending
    /\ RunEffects(IF cvReady # effectDeps.cvReady THEN "ready" ELSE "effect",
                  pastedImage, cvReady, Params)
    /\ UNCHANGED <<mounted, engineVars, queued, pastedImage, cvReady, paramVars, pending,
                   canvasVars, copyVars>>

(***************************************************************************)
(* useOcvLoader.                                                           *)
(***************************************************************************)
\* The first commit: the refs are set and the handlers of the elements attached.
\* No effect has run: window.cv is untouched, no paste listener is registered.
Mount ==
    /\ ~mounted
    /\ mounted' = TRUE
    /\ last' = NoTask
    /\ UNCHANGED <<engineVars, cvReady, pastedImage, queued, paramVars, effectDeps, listener,
                   pending, runs, canvasVars, copyVars>>

\* The effects of the first commit: useOcvLoader's (useOcvLoader.ts:6-39), then
\* the paste listener's (registered with this render's closure, cvReady false) and
\* the reprocess effect (no image: no call).
MountEffects ==
    /\ Idle
    /\ ~effectDeps.ran
    /\ IF CvHasMat
       THEN /\ queued' = [queued EXCEPT !.cvReady = TRUE]
            /\ UNCHANGED engineVars
       ELSE /\ interval' = TRUE
            /\ onRuntimeInitialized' = TRUE
            /\ windowCv' = "stub"
            /\ UNCHANGED queued
    /\ RunEffects("mount", pastedImage, cvReady, Params)
    /\ UNCHANGED <<mounted, pastedImage, cvReady, paramVars, pending, canvasVars, copyVars>>

\* The environment: the engine's runtime finishes initializing, cv.Mat appears.
RuntimeInitializes ==
    /\ Idle
    /\ ~CvHasMat
    /\ windowCv' = "runtime"
    /\ last' = NoTask
    /\ UNCHANGED <<mounted, onRuntimeInitialized, interval, cvReady, pastedImage, queued, paramVars,
                   effectDeps, listener, pending, runs, canvasVars, copyVars>>

\* (variant for C10: the callback flips the flag instead of setting it)
checkOpenCVToggles ==
    /\ Idle
    /\ onRuntimeInitialized
    /\ onRuntimeInitialized' = FALSE
    /\ LoaderStep(IF CvHasMat THEN ~queued.cvReady ELSE queued.cvReady)
    /\ UNCHANGED <<mounted, windowCv, interval, pending, canvasVars, copyVars>>

\* checkOpenCV, called by the engine through window.cv.onRuntimeInitialized
\* (useOcvLoader.ts:15-20). It does not clear the interval.
checkOpenCV ==
    /\ Idle
    /\ onRuntimeInitialized
    /\ onRuntimeInitialized' = FALSE
    /\ LoaderStep(IF CvHasMat THEN TRUE ELSE queued.cvReady)
    /\ UNCHANGED <<mounted, windowCv, interval, pending, canvasVars, copyVars>>

\* One tick of the interval (useOcvLoader.ts:23-29).
PollTick ==
    /\ Idle
    /\ interval
    /\ IF CvHasMat
       THEN /\ LoaderStep(TRUE)
            /\ interval' = FALSE
       ELSE /\ LoaderStep(queued.cvReady)
            /\ interval' = interval
    /\ UNCHANGED <<mounted, windowCv, onRuntimeInitialized, pending, canvasVars, copyVars>>

(***************************************************************************)
(* Image Source: paste and file selection.                                 *)
(***************************************************************************)
\* s.indexOf(sub) !== -1
Contains(s, sub) ==
    \E i \in 1..(Len(s) - Len(sub) + 1) : SubSeq(s, i, i + Len(sub) - 1) = sub

Min(S) == CHOOSE x \in S : \A y \in S : x <= y

\* The item the first loop of handlePaste stops at (App.tsx:39-53), 0 if none.
FirstImageItem(items) ==
    LET S == {i \in 1..Len(items) : Contains(items[i].type, "image") /\ items[i].file}
    IN  IF S = {} THEN 0 ELSE Min(S)

\* The item the second loop stops at (App.tsx:56-73), 0 if none.
FirstTextItem(items) ==
    LET S == {i \in 1..Len(items) : items[i].type = "text/plain"}
    IN  IF S = {} THEN 0 ELSE Min(S)

Pending(kind, text, cl) == [kind |-> kind, text |-> text, cl |-> cl]

\* The callback handlePaste leaves behind for a clipboard, as a sequence of 0 or 1.
PasteCallbacks(items, cl) ==
    IF FirstImageItem(items) # 0
    THEN <<Pending("reader", items[FirstImageItem(items)].text, cl)>>
    ELSE IF FirstTextItem(items) # 0
         THEN <<Pending("getAsString", items[FirstTextItem(items)].text, cl)>>
         ELSE <<>>

\* A paste event, once a listener is registered: its handlePaste (App.tsx:33-75).
handlePaste ==
    /\ Idle
    /\ effectDeps.ran
    /\ Len(pending) < MaxPending
    /\ \E items \in ClipboardSamples :
          pending' = pending \o PasteCallbacks(items, listener)
    /\ last' = NoTask
    /\ UNCHANGED <<mounted, engineVars, cvReady, pastedImage, queued, paramVars, effectDeps, listener, runs,
                   canvasVars, copyVars>>

\* The callback handleFileInput leaves behind (App.tsx:18-29).
FileCallbacks(file, cl) ==
    IF file.type # "none" /\ StartsWith(file.type, "image/")
    THEN <<Pending("reader", file.text, cl)>>
    ELSE <<>>

\* A change event of the file input; the handler is the latest render's.
handleFileInput ==
    /\ Idle
    /\ ~FileInputDisabled
    /\ Len(pending) < MaxPending
    /\ \E file \in FileSamples :
          pending' = pending \o FileCallbacks(file, Closure(cvReady, Params))
    /\ last' = NoTask
    /\ UNCHANGED <<mounted, engineVars, cvReady, pastedImage, queued, paramVars, effectDeps, listener, runs,
                   canvasVars, copyVars>>

RemoveAt(seq, i) == SubSeq(seq, 1, i - 1) \o SubSeq(seq, i + 1, Len(seq))

\* reader.onload (App.tsx:22-26, 44-48): setPastedImage, then the direct call.
ReaderOnload ==
    /\ Idle
    /\ \E i \in 1..Len(pending) :
          /\ pending[i].kind = "reader"
          /\ Handler("reader", <<Call("direct", pending[i].text, pending[i].cl)>>,
                     pending[i].text, queued.cvReady)
          /\ pending' = RemoveAt(pending, i)
    /\ UNCHANGED <<mounted, engineVars, canvasVars, copyVars>>

\* The getAsString callback (App.tsx:58-70).
GetAsStringCallback ==
    /\ Idle
    /\ \E i \in 1..Len(pending) :
          /\ pending[i].kind = "getAsString"
          /\ LET trimmedText == Trim(pending[i].text)
             IN  IF LooksLikeImageUrl(trimmedText)
                 THEN Handler("text", <<Call("direct", trimmedText, pending[i].cl)>>,
                              trimmedText, queued.cvReady)
                 ELSE Handler("rejected", <<>>, queued.pastedImage, queued.cvReady)
          /\ pending' = RemoveAt(pending, i)
    /\ UNCHANGED <<mounted, engineVars, canvasVars, copyVars>>

(***************************************************************************)
(* The controls.                                                           *)
(***************************************************************************)
\* onChange of the scale factor input (App.tsx:217). Like every render, the one
\* it causes comes after the effects of the render before.
SetScaleFactor ==
    /\ Idle /\ ~RangeDisabled /\ ~EffectsPending
    /\ \E v \in ScaleChoices \ {scaleFactor} :
          Task("param", ParamsOf(v, blurKernelSize, cannyThreshold1, cannyThreshold2))
    /\ UNCHANGED <<mounted, engineVars, queued, pending, canvasVars, copyVars>>

\* onChange of the blur kernel input (App.tsx:233)
SetBlurKernelSize ==
    /\ Idle /\ ~RangeDisabled /\ ~EffectsPending
    /\ \E v \in BlurChoices \ {blurKernelSize} :
          Task("param", ParamsOf(scaleFactor, v, cannyThreshold1, cannyThreshold2))
    /\ UNCHANGED <<mounted, engineVars, queued, pending, canvasVars, copyVars>>

\* onChange of the first threshold input (App.tsx:248)
SetCannyThreshold1 ==
    /\ Idle /\ ~RangeDisabled /\ ~EffectsPending
    /\ \E v \in Threshold1Choices \ {cannyThreshold1} :
          Task("param", ParamsOf(scaleFactor, blurKernelSize, v, cannyThreshold2))
    /\ UNCHANGED <<mounted, engineVars, queued, pending, canvasVars, copyVars>>

\* onChange of the second threshold input (App.tsx:263)
SetCannyThreshold2 ==
    /\ Idle /\ ~RangeDisabled /\ ~EffectsPending
    /\ \E v \in Threshold2Choices \ {cannyThreshold2} :
          Task("param", ParamsOf(scaleFactor, blurKernelSize, cannyThreshold1, v))
    /\ UNCHANGED <<mounted, engineVars, queued, pending, canvasVars, copyVars>>

\* onClick of the Reprocess button (App.tsx:271), the latest render's closure. It
\* sets no state.
Reprocess ==
    /\ Idle /\ ~ReprocessDisabled
    /\ Handler("reprocess",
               IF pastedImage # NoImage
               THEN <<Call("direct", pastedImage, Closure(cvReady, Params))>> ELSE <<>>,
               queued.pastedImage, queued.cvReady)
    /\ UNCHANGED <<mounted, engineVars, pending, canvasVars, copyVars>>

(***************************************************************************)
(* processImageWithOpenCV: img.onload / img.onerror and the deferred step. *)
(***************************************************************************)
\* A run moves on. Once it has ended, its image and closure are garbage.
SetStage(rs, i, stage) ==
    IF stage = "drawn"
    THEN [rs EXCEPT ![i].stage = stage]
    ELSE [rs EXCEPT ![i] = [url |-> NoImage, p |-> DefaultParams, stage |-> stage,
                            op |-> rs[i].op]]

\* ctx.drawImage(img, 0, 0) on a canvas resized to the image (App.tsx:97-101)
DrawImage(imageUrl) ==
    [width |-> ImageTable[imageUrl].width, height |-> ImageTable[imageUrl].height,
     image |-> imageUrl, steps |-> <<>>]

\* img.onload of a run (App.tsx:96-141): draw, then requestAnimationFrame.
ImgOnload ==
    /\ Idle
    /\ \E i \in 1..Len(runs) :
          /\ runs[i].stage = "loading"
          /\ Decodes(runs[i].url)
          /\ canvas' = DrawImage(runs[i].url)
          /\ rafQueue' = Append(rafQueue, i)
          /\ runs' = SetStage(runs, i, "drawn")
    /\ last' = NoTask
    /\ UNCHANGED <<mounted, engineVars, cvReady, pastedImage, queued, paramVars, effectDeps, listener, pending,
                   frameLeft, liveBuffers, copyVars>>

\* img.onerror of a run (App.tsx:142-144): logs.
ImgOnerror ==
    /\ Idle
    /\ \E i \in 1..Len(runs) :
          /\ runs[i].stage = "loading"
          /\ ~Decodes(runs[i].url)
          /\ runs' = SetStage(runs, i, "loadError")
    /\ last' = NoTask
    /\ UNCHANGED <<mounted, engineVars, cvReady, pastedImage, queued, paramVars, effectDeps, listener, pending,
                   canvasVars, copyVars>>

\* The largest power of 2 that is at most m (m >= 1).
RECURSIVE FloorPow2(_)
FloorPow2(m) == IF m < 2 THEN 1 ELSE 2 * FloorPow2(m \div 2)

\* scaleFactor is the double nearest to sf/100 (parseFloat of the input's value).
\* For these it lies below sf/100 by a/5 units in its last place, and that unit
\* is 2^shift times the unit of the doubles in [1/2, 1); every other value of the
\* scale input has a double that is exact or lies above.
ScaleError(sf) ==
    CASE sf = 15 -> [a |-> 1, shift |-> 2]
      [] sf = 30 -> [a |-> 1, shift |-> 1]
      [] sf = 35 -> [a |-> 2, shift |-> 1]
      [] sf \in {60, 85} -> [a |-> 1, shift |-> 0]
      [] sf \in {70, 95} -> [a |-> 2, shift |-> 0]
      [] OTHER -> [a |-> 0, shift |-> 0]

\* The double product n * scaleFactor is below k + 1/2 although n * sf/100 is
\* exactly k + 1/2: the error n * a/5 exceeds half the spacing of the doubles at
\* the product.
ProductBelowHalf(n, sf) ==
    /\ (n * sf) % 100 = 50
    /\ 2 * n * ScaleError(sf).a > 5 * FloorPow2((n * sf) \div 50) * 2 ^ ScaleError(sf).shift

\* Math.round(n * scaleFactor), scaleFactor in hundredths: the nearest integer,
\* a half rounding up, of the double product.
RoundScaled(n, sf) ==
    IF ProductBelowHalf(n, sf)
    THEN (2 * n * sf + 100) \div 200 - 1
    ELSE (2 * n * sf + 100) \div 200

\* (variant for C11: an even size rounded down)
KernelSizeRoundsDown(blur) == IF blur % 2 = 0 THEN blur - 1 ELSE blur

\* App.tsx:118
KernelSize(blur) == IF blur % 2 = 0 THEN blur + 1 ELSE blur

\* cv.resize to an empty size throws (dsize is empty and fx = fy = 0)
ResizeThrows(w, h) == w <= 0 \/ h <= 0

\* What steps 2-6 make of the image they are given: the scaled size, the kernel
\* and the thresholds decide the pixels.
Processing(cols, rows, p) ==
    [size |-> <<RoundScaled(cols, p.scaleFactor), RoundScaled(rows, p.scaleFactor)>>,
     kernelSize |-> KernelSize(p.blurKernelSize),
     threshold1 |-> p.cannyThreshold1,
     threshold2 |-> p.cannyThreshold2]

\* (variant for C15: a failure wipes the canvas)
PipelineClearsOnFailure(cv, p) ==
    LET step == Processing(cv.width, cv.height, p)
    IN  IF ResizeThrows(step.size[1], step.size[2])
        THEN [canvas |-> BlankCanvas, threw |-> TRUE, leaked |-> 2]
        ELSE [canvas |-> [width |-> cv.width, height |-> cv.height, image |-> cv.image,
                          steps |-> Append(cv.steps, step)],
              threw |-> FALSE, leaked |-> 0]

\* The try block of App.tsx:106-139 on the canvas as it is: the canvas after it,
\* whether it threw, and the buffers it left undeleted.
Pipeline(cv, p) ==
    LET cols == cv.width
        rows == cv.height
        step == Processing(cols, rows, p)
    IN  IF ResizeThrows(step.size[1], step.size[2])
        THEN [canvas |-> cv, threw |-> TRUE, leaked |-> 2]
        ELSE [canvas |-> [width |-> cols, height |-> rows, image |-> cv.image,
                          steps |-> Append(cv.steps, step)],
              threw |-> FALSE, leaked |-> 0]

\* The requestAnimationFrame callback of a run (App.tsx:104-140). The callbacks
\* queued when a frame begins are called in order, with no other task between.
RafCallback ==
    /\ mounted
    /\ rafQueue # <<>>
    /\ LET i == Head(rafQueue)
           out == Pipeline(canvas, runs[i].p)
       IN  /\ canvas' = out.canvas
           /\ liveBuffers' = liveBuffers + out.leaked
           /\ runs' = SetStage(runs, i, IF out.threw THEN "failed" ELSE "processed")
    /\ rafQueue' = Tail(rafQueue)
    /\ frameLeft' = IF frameLeft = 0 THEN Len(rafQueue) - 1 ELSE frameLeft - 1
    /\ last' = NoTask
    /\ UNCHANGED <<mounted, engineVars, cvReady, pastedImage, queued, paramVars, effectDeps, listener, pending,
                   copyVars>>

(***************************************************************************)
(* handleCopyImage.                                                        *)
(***************************************************************************)
\* onClick of the Copy button (App.tsx:148-167). toBlobThrows: canvas.toBlob
\* throws instead of taking the callback, the one case the catch block sees.
handleCopyImage ==
    /\ Idle /\ ~CopyDisabled
    /\ Len(copies) < MaxCopies
    /\ \E toBlobThrows \in BOOLEAN :
          IF ~mounted
          THEN UNCHANGED copyVars
          ELSE IF toBlobThrows
               THEN /\ copies' = Append(copies, "caught")
                    /\ copyStatus' = StatusFailed
                    /\ timers' = Append(timers, Len(copies) + 1)
                    /\ UNCHANGED unhandled
               ELSE /\ copies' = Append(copies, "toBlob")
                    /\ UNCHANGED <<copyStatus, timers, unhandled>>
    /\ last' = NoTask
    /\ UNCHANGED <<mounted, engineVars, cvReady, pastedImage, queued, paramVars, effectDeps, listener, pending,
                   runs, canvasVars>>

\* The toBlob callback up to its await (App.tsx:153-157); blob may be null.
ToBlobCallback ==
    /\ Idle
    /\ \E i \in 1..Len(copies), blob \in BOOLEAN :
          /\ copies[i] = "toBlob"
          /\ copies' = [copies EXCEPT ![i] = IF blob THEN "writing" ELSE "noBlob"]
    /\ last' = NoTask
    /\ UNCHANGED <<mounted, engineVars, cvReady, pastedImage, queued, paramVars, effectDeps, listener, pending,
                   runs, canvasVars, copyStatus, timers, unhandled>>

\* navigator.clipboard.write resolves: the rest of the callback (App.tsx:158-159).
ClipboardWriteResolves ==
    /\ Idle
    /\ \E i \in 1..Len(copies) :
          /\ copies[i] = "writing"
          /\ copies' = [copies EXCEPT ![i] = "copied"]
          /\ copyStatus' = StatusCopied
          /\ timers' = Append(timers, i)
    /\ last' = NoTask
    /\ UNCHANGED <<mounted, engineVars, cvReady, pastedImage, queued, paramVars, effectDeps, listener, pending,
                   runs, canvasVars, unhandled>>

\* navigator.clipboard.write rejects: the async callback's promise rejects, and
\* nothing awaits it (the try of App.tsx:151 has long been left).
ClipboardWriteRejects ==
    /\ Idle
    /\ \E i \in 1..Len(copies) :
          /\ copies[i] = "writing"
          /\ copies' = [copies EXCEPT ![i] = "rejected"]
    /\ unhandled' = unhandled + 1
    /\ last' = NoTask
    /\ UNCHANGED <<mounted, engineVars, cvReady, pastedImage, queued, paramVars, effectDeps, listener, pending,
                   runs, canvasVars, copyStatus, timers>>

\* The oldest setTimeout(() => setCopyStatus(''), 2000) fires (App.tsx:159, 165).
ClearStatusTimer ==
    /\ Idle
    /\ timers # <<>>
    /\ timers' = Tail(timers)
    /\ copyStatus' = StatusEmpty
    /\ last' = NoTask
    /\ UNCHANGED <<mounted, engineVars, cvReady, pastedImage, queued, paramVars, effectDeps, listener, pending,
                   runs, canvasVars, copies, unhandled>>

(***************************************************************************)
(* The system. handleCopyImage and the pipeline share no state (the copy   *)
(* reads the canvas through toBlob only), so they are explored apart:      *)
(* Spec is the component without the copy button, SpecCopy the component   *)
(* with the copy button and with image loads left outstanding.             *)
(***************************************************************************)
Next ==
    \/ Mount
    \/ MountEffects
    \/ RuntimeInitializes
    \/ checkOpenCV
    \/ PollTick
    \/ handlePaste
    \/ handleFileInput
    \/ ReaderOnload
    \/ GetAsStringCallback
    \/ Render
    \/ Effects
    \/ SetScaleFactor
    \/ SetBlurKernelSize
    \/ SetCannyThreshold1
    \/ SetCannyThreshold2
    \/ Reprocess
    \/ ImgOnload
    \/ ImgOnerror
    \/ RafCallback

Spec == Init /\ [][Next]_vars

NextCopy ==
    \/ Mount
    \/ MountEffects
    \/ RuntimeInitializes
    \/ checkOpenCV
    \/ PollTick
    \/ handlePaste
    \/ handleFileInput
    \/ ReaderOnload
    \/ GetAsStringCallback
    \/ Render
    \/ Effects
    \/ handleCopyImage
    \/ ToBlobCallback
    \/ ClipboardWriteResolves
    \/ ClipboardWriteRejects
    \/ ClearStatusTimer

SpecCopy == Init /\ [][NextCopy]_vars

(***************************************************************************)
(* The component with its scheduling: React renders the updates it has     *)
(* queued and runs the effects of a render, an image that has finished     *)
(* loading gets its load (or error) event, and a requested animation frame *)
(* comes. Nothing makes the engine initialize or the user act.             *)
(***************************************************************************)
Fairness ==
    /\ WF_vars(Render)
    /\ WF_vars(Effects)
    /\ WF_vars(ImgOnload)
    /\ WF_vars(ImgOnerror)
    /\ WF_vars(RafCallback)

\* The scale input stands for the four range inputs here: the other three differ
\* from it in the parameter they set only.
NextLive ==
    \/ Mount
    \/ MountEffects
    \/ RuntimeInitializes
    \/ checkOpenCV
    \/ PollTick
    \/ handlePaste
    \/ handleFileInput
    \/ ReaderOnload
    \/ GetAsStringCallback
    \/ Render
    \/ Effects
    \/ SetScaleFactor
    \/ Reprocess
    \/ ImgOnload
    \/ ImgOnerror
    \/ RafCallback

SpecLive == Init /\ [][NextLive]_vars /\ Fairness

(***************************************************************************)
(* The component later in its life: the engine was initialized when the    *)
(* component mounted, an image has been pasted and processed, the scale    *)
(* input may have been moved, and every run so far has ended (the run for  *)
(* the scale on display was the last: the canvas is as it left it, with    *)
(* the buffers it leaked if it failed). The runs of the behaviour are      *)
(* counted from here.                                                      *)
(***************************************************************************)
InitLoaded ==
    /\ mounted = TRUE
    /\ windowCv = "runtime"
    /\ onRuntimeInitialized = FALSE
    /\ interval = FALSE
    /\ cvReady = TRUE
    /\ pastedImage = DataUrlA
    /\ queued = [pastedImage |-> pastedImage, cvReady |-> TRUE]
    /\ blurKernelSize = DefaultBlurKernelSize
    /\ cannyThreshold1 = DefaultCannyThreshold1
    /\ cannyThreshold2 = DefaultCannyThreshold2
    /\ scaleFactor \in ScaleChoices
    /\ copyStatus = StatusEmpty
    /\ effectDeps = Deps(pastedImage, TRUE, Params)
    /\ listener = Closure(TRUE, DefaultParams)
    /\ pending = <<>>
    /\ runs = <<>>
    /\ rafQueue = <<>>
    /\ frameLeft = 0
    /\ canvas = Pipeline(DrawImage(pastedImage), Params).canvas
    /\ liveBuffers = Pipeline(DrawImage(pastedImage), Params).leaked
    /\ copies = <<>>
    /\ timers = <<>>
    /\ unhandled = 0
    /\ last = NoTask

NextLoaded ==
    \/ handlePaste
    \/ handleFileInput
    \/ ReaderOnload
    \/ GetAsStringCallback
    \/ Render
    \/ Effects
    \/ SetScaleFactor
    \/ SetBlurKernelSize
    \/ SetCannyThreshold1
    \/ SetCannyThreshold2
    \/ Reprocess
    \/ ImgOnload
    \/ ImgOnerror
    \/ RafCallback

SpecLoaded == InitLoaded /\ [][NextLoaded]_vars

(***************************************************************************)
(* One run on its own, for the pipeline as a function of the image and the *)
(* parameters: the component with the engine ready, an image loaded, the   *)
(* parameters anywhere in their ranges and a run just started for them.    *)
(***************************************************************************)
InitPipeline ==
    /\ mounted = TRUE
    /\ windowCv = "runtime"
    /\ onRuntimeInitialized = FALSE
    /\ interval = FALSE
    /\ cvReady = TRUE
    /\ pastedImage \in DOMAIN ImageTable
    /\ queued = [pastedImage |-> pastedImage, cvReady |-> TRUE]
    /\ blurKernelSize \in BlurRange
    /\ cannyThreshold1 \in Threshold1Choices
    /\ cannyThreshold2 \in Threshold2Choices
    /\ scaleFactor \in ScaleRange
    /\ copyStatus = StatusEmpty
    /\ effectDeps = Deps(pastedImage, TRUE, Params)
    /\ listener = Closure(TRUE, DefaultParams)
    /\ pending = <<>>
    /\ runs = <<NewRun(pastedImage, Params, "reprocess")>>
    /\ rafQueue = <<>>
    /\ frameLeft = 0
    /\ canvas = BlankCanvas
    /\ liveBuffers = 0
    /\ copies = <<>>
    /\ timers = <<>>
    /\ unhandled = 0
    /\ last = NoTask

NextPipeline ==
    \/ ImgOnload
    \/ RafCallback

SpecPipeline == InitPipeline /\ [][NextPipeline]_vars

(***************************************************************************)
(* Properties.                                                             *)
(***************************************************************************)
\* What the canvas shows when the pipeline has run once on an image with the given parameters.
PipelineResult(imageUrl, p) == Pipeline(DrawImage(imageUrl), p).canvas

\* C1 (as claimed): whenever the engine is ready, an image is loaded, every update
\* is rendered, the effects of the render have run and no run is in flight, the
\* canvas shows the pipeline result for the current SourceImage computed with the
\* current parameters.
C1_DisplayedIsLatest ==
    (/\ cvReady /\ pastedImage # NoImage /\ Decodes(pastedImage)
     /\ ~RenderPending /\ ~EffectsPending
     /\ InFlight(runs) = {})
        => canvas = PipelineResult(pastedImage, Params)

\* C2 (as claimed): when a run triggered by a parameter change overlaps one other
\* run and both have finished, the canvas holds the source image processed once,
\* by one of the two runs, never the pixels of one run processed again by the other.
C2_OneRunsOutput ==
    (/\ Len(runs) = 2
     /\ runs[2].op = "param"
     /\ runs[1].stage = "processed" /\ runs[2].stage = "processed")
        => (canvas.image = pastedImage /\ Len(canvas.steps) = 1)

\* C3: a parameter change (possible only while an image is loaded and the engine
\* is ready) starts exactly one new run, for the current image, with the values of
\* all four parameters as they are after the change.
C3_ParamChangeStartsOneRun ==
    last.op = "param"
        => /\ pastedImage # NoImage /\ cvReady
           /\ Len(runs) = last.runsBefore + 1
           /\ runs[Len(runs)] = NewRun(pastedImage, Params, "param")

C3_Witness ==
    /\ last.op = "param"
    /\ Len(runs) = 2
    /\ 1 \in InFlight(runs)
    /\ cannyThreshold2 # DefaultCannyThreshold2

\* C4: a call of processImageWithOpenCV by a render whose cvReady is false (or with
\* no canvas) starts no run: no decode, no deferred step; and while the engine is
\* not ready nothing is in flight and the canvas is as it was created.
C4_NotReadyIsNoOp ==
    /\ \A k \in 1..Len(last.calls) :
          (~last.calls[k].cl.cvReady \/ ~mounted) => ~last.calls[k].passed
    /\ (last.calls # <<>> /\ \A k \in 1..Len(last.calls) : ~last.calls[k].cl.cvReady)
          => Len(runs) = last.runsBefore
    /\ ~cvReady => (runs = <<>> /\ rafQueue = <<>> /\ canvas = BlankCanvas)

C4_Witness ==
    /\ last.calls # <<>>
    /\ ~last.calls[1].cl.cvReady
    /\ cvReady
    /\ pastedImage = HttpsUrlPng

\* What the specification calls an image reference (section 4.2): the trimmed
\* text ends in an image extension, in any case, or begins with one of the schemes.
SpecImageReference(text) ==
    LET t == Trim(text)
    IN  \/ \E ext \in {".jpg", ".jpeg", ".png", ".gif", ".webp", ".bmp"} :
              EndsWith(ToLower(t), CodeUnits(ext))
        \/ \E scheme \in {"http://", "https://", "data:image/"} :
              StartsWith(t, CodeUnits(scheme))

\* The step is the getAsString callback for pending[i].
TextCallbackStep(i) ==
    /\ i \in 1..Len(pending)
    /\ pending[i].kind = "getAsString"
    /\ pending' = RemoveAt(pending, i)
    /\ last'.op \in {"text", "rejected"}

\* C5: pasted text that is not an image reference is rejected: SourceImage, the
\* runs, the parameters and the canvas are as before.
C5_RejectedTextChangesNothing ==
    [][\A i \in 1..MaxPending + 1 :
          (TextCallbackStep(i) /\ ~SpecImageReference(pending[i].text))
              => /\ pastedImage' = pastedImage /\ queued' = queued
                 /\ runs' = runs /\ rafQueue' = rafQueue
                 /\ Params' = Params
                 /\ canvas' = canvas
                 /\ last'.calls = <<>>]_vars

C5_Witness ==
    /\ last.op = "rejected"
    /\ pastedImage = HttpsUrlPng
    /\ cvReady

\* C6: pasted text that is an image reference is set as SourceImage (trimmed), to
\* show at the next render, and processImageWithOpenCV is called with it; the
\* call starts a run when the listener's render had the engine ready.
C6_AcceptedTextIsRun ==
    [][\A i \in 1..MaxPending + 1 :
          (TextCallbackStep(i) /\ SpecImageReference(pending[i].text))
              => /\ queued'.pastedImage = Trim(pending[i].text)
                 /\ last'.calls # <<>>
                 /\ last'.calls[1].via = "direct"
                 /\ last'.calls[1].url = Trim(pending[i].text)
                 /\ pending[i].cl.cvReady
                       => /\ Len(runs') > Len(runs)
                          /\ runs'[Len(runs) + 1].url = Trim(pending[i].text)
                          /\ runs'[Len(runs) + 1].stage = "loading"]_vars

C6_Witness ==
    /\ last.op = "text"
    /\ queued.pastedImage = HttpsUrlPng
    /\ Len(runs) > last.runsBefore
    /\ runs[Len(runs)].url = HttpsUrlPng

\* C7 (as claimed): once the decode of an accepted input has failed, SourceImage
\* is what it was before the input was accepted (an image that loads, or none),
\* so the failed input is not current and the controls are as before.
C7_FailedDecodeLeavesSource ==
    (/\ InFlight(runs) = {}
     /\ \E i \in 1..Len(runs) : runs[i].stage = "loadError")
        => (pastedImage = NoImage \/ Decodes(pastedImage))

\* An attempt that has ended without an image on the clipboard.
CopyFailed(stage) == stage \in {"caught", "noBlob", "rejected"}

\* C8 (as claimed): a copy attempt that puts no image on the clipboard ends with
\* the failure status shown, and the error does not escape.
C8_FailedCopyShowsFailure ==
    [][\A i \in 1..Len(copies') :
          (CopyFailed(copies'[i]) /\ (i > Len(copies) \/ ~CopyFailed(copies[i])))
              => (copyStatus' = StatusFailed /\ unhandled' = unhandled)]_vars

\* C9 (as claimed): with no image loaded or the engine not ready, every control
\* of the rendered component is disabled, the file picker included.
C9_AllControlsDisabled ==
    (mounted /\ (pastedImage = NoImage \/ ~cvReady))
        => (RangeDisabled /\ ReprocessDisabled /\ CopyDisabled /\ FileInputDisabled)

\* C9 (amended): with no image loaded or the engine not ready, the four range
\* inputs, the re-run button and the copy button are disabled, so the parameters
\* still have their initial values; the file picker is never disabled.
C9_ControlsDisabled ==
    /\ (pastedImage = NoImage \/ ~cvReady)
          => (RangeDisabled /\ ReprocessDisabled /\ CopyDisabled /\ Params = DefaultParams)
    /\ ~FileInputDisabled

C9_Witness ==
    /\ mounted
    /\ pastedImage = DataUrlA
    /\ ~cvReady
    /\ CvHasMat

\* C10: the ready flag starts false and, once true, stays true, in whatever order
\* the poll ticks and the initialization callback come: both the flag the setters
\* hold and the flag the component has rendered.
C10_ReadyMonotonic ==
    /\ ~cvReady /\ ~queued.cvReady
    /\ [][(cvReady => cvReady') /\ (queued.cvReady => queued'.cvReady)]_vars

C10_Witness ==
    /\ cvReady
    /\ interval
    /\ ~onRuntimeInitialized

\* C11: for every blurKernelSize in 1..21, the kernel side the blur step is given
\* is odd, and is blurKernelSize when that is odd and blurKernelSize + 1 when even
\* (the blur input itself delivers the odd values only); and the kernel a run's
\* blur step uses is the one computed from the run's blurKernelSize.
C11_KernelSizeOdd ==
    /\ \A b \in 1..21 :
          /\ KernelSize(b) % 2 = 1
          /\ KernelSize(b) = (IF b % 2 = 1 THEN b ELSE b + 1)
    /\ \A k \in 1..Len(canvas.steps) :
          /\ blurKernelSize \in 1..21
          /\ canvas.steps[k].kernelSize % 2 = 1
          /\ canvas.steps[k].kernelSize =
                (IF blurKernelSize % 2 = 1 THEN blurKernelSize ELSE blurKernelSize + 1)

C11_Witness ==
    /\ runs[1].stage = "processed"
    /\ blurKernelSize = 21
    /\ canvas.steps[1].kernelSize = 21

\* C12 (as claimed): for every image and every scale factor of the control, the
\* deferred step of a run resizes to the rounded size and back and writes an image
\* of the original width and height, also when a rounded dimension is 0.
C12_ResizeRoundTrip ==
    (runs[1].stage \in {"processed", "failed"})
        => /\ runs[1].stage = "processed"
           /\ canvas.width = ImageTable[pastedImage].width
           /\ canvas.height = ImageTable[pastedImage].height
           /\ canvas.steps =
                 <<Processing(ImageTable[pastedImage].width,
                              ImageTable[pastedImage].height, Params)>>

\* C13 (as claimed): every run a task starts has the parameter values that are
\* current when the task starts it, whatever the trigger; none has the values of
\* an earlier render.
C13_RunsUseCurrentParams ==
    last.op # "none"
        => \A k \in (last.runsBefore + 1)..Len(runs) : runs[k].p = Params

\* C14 (as claimed): between tasks no buffer of the engine is live: every deferred
\* step, completed or failed, has released the buffers it created.
C14_NoLiveBuffers == liveBuffers = 0

\* The step is the deferred step of the run at the head of the queue.
DeferredStep == rafQueue # <<>> /\ rafQueue' = Tail(rafQueue)

\* C15: a failure in the deferred step of a run stays in that run: the canvas is
\* as it was at the failure, SourceImage, the parameters and readiness are
\* unchanged, the other runs are untouched, and the controls that trigger runs
\* stay enabled.
C15_FailureIsContained ==
    /\ [][(DeferredStep /\ runs'[Head(rafQueue)].stage = "failed")
            => /\ canvas' = canvas
               /\ pastedImage' = pastedImage /\ Params' = Params /\ cvReady' = cvReady
               /\ pending' = pending
               /\ \A j \in 1..Len(runs) : j # Head(rafQueue) => runs'[j] = runs[j]]_vars
    /\ []((\E i \in 1..Len(runs) : runs[i].stage = "failed")
            => (~RangeDisabled /\ ~ReprocessDisabled /\ ProcessGuard(Closure(cvReady, Params))))

C15_Witness ==
    /\ Len(runs) = 2
    /\ runs[1].stage = "failed"
    /\ runs[2].stage = "processed"
    /\ runs[2].op = "param"
    /\ canvas.steps # <<>>

\* C16 (as claimed): once the ready flag has been set to true no poll tick
\* executes (a tick that finds the engine cancels the interval): the trigger
\* that set the flag cancelled the interval.
C16_NoPollAfterReady == [][queued.cvReady => ~(interval /\ ~interval')]_vars

\* C19 (as claimed): when the deferred step of a run reads the canvas, the canvas
\* holds the unprocessed image of that run, drawn and not yet processed.
C19_ReadsOwnDraw ==
    [][DeferredStep
          => (canvas.steps = <<>> /\ canvas.image = runs[Head(rafQueue)].url)]_vars

\* The attempt that set the status on display: setting a status and starting its
\* clear timer are one step, so it is the attempt of the newest timer.
StatusSetBy == timers[Len(timers)]

\* C18 (as claimed): a status on display is cleared only by the timer of the
\* attempt that set it, never by the timer of an earlier attempt.
C18_OwnTimerClears ==
    [][(timers # <<>> /\ timers' = Tail(timers) /\ copyStatus # StatusEmpty)
          => Head(timers) = StatusSetBy]_vars

\* C17 (as claimed): the deferred step of every run that passed the guard and
\* decoded its image executes and writes its output (the canvas it reads, processed
\* with the run's parameters) to the canvas.
C17_AlwaysWrites ==
    [][DeferredStep
          => canvas'.steps =
                Append(canvas.steps,
                       Processing(canvas.width, canvas.height, runs[Head(rafQueue)].p))]_vars

\* C20: once the ready flag has been set it is rendered; the effects of the
\* render in which it becomes true with an image accepted start a run for the
\* current SourceImage with the current parameters, with no user action; if the
\* image loads, the run's deferred step eventually executes and the canvas shows a
\* processed image (the pipeline result for SourceImage when nothing else was
\* triggered).
C20_ReadyStartsRun ==
    /\ [][(~effectDeps.cvReady /\ effectDeps'.cvReady /\ pastedImage # NoImage)
            => /\ last'.op = "ready"
               /\ cvReady /\ pastedImage' = pastedImage /\ Params' = Params
               /\ runs' = Append(runs, NewRun(pastedImage, Params, "ready"))]_vars
    /\ queued.cvReady ~> cvReady
    /\ \A i \in 1..MaxRuns :
          (/\ Len(runs) >= i
           /\ runs[i].op = "ready"
           /\ runs[i].stage = "loading"
           /\ Decodes(runs[i].url))
             ~> (/\ Len(runs) >= i
                 /\ runs[i].op = "ready"
                 /\ runs[i].stage = "processed"
                 /\ canvas.steps # <<>>
                 /\ (Len(runs) = 1 /\ ~EffectsPending)
                       => canvas = PipelineResult(pastedImage, Params))

C20_Witness ==
    /\ Len(runs) = 1
    /\ runs[1].op = "ready"
    /\ last.op = "none"
    /\ runs[1].stage = "processed"
    /\ canvas = PipelineResult(pastedImage, DefaultParams)
====
